---------------------------- MODULE Spec2Model ----------------------------
(***************************************************************************)
(* Model of src/main.py: the image upload pipeline (POST /upload), the     *)
(* recent-answers read (GET /answers) and the SQLite answer store.         *)
(*                                                                         *)
(* Texts are sequences of one-character strings.  Uploaded contents are    *)
(* records of their first bytes and their length, because only the length  *)
(* and the head of the base64 encoding are ever looked at.                 *)
(***************************************************************************)
EXTENDS Integers, Sequences, FiniteSets, TLC

(***************************************************************************)
(* Bounds of the model.                                                    *)
(***************************************************************************)
MaxUploads == 2     \* uploads received in one run
MaxClock == 1       \* the wall clock (seconds) runs over 0..MaxClock
MaxPieces == 4      \* reply texts of SpecParse: up to MaxPieces pieces
MaxBurst == 2       \* SpecFill: the uploads stored within the first second
MaxStarts == 3      \* SpecStore: runs of init_database()
MaxSlots == 2       \* SpecConc: uploads in flight together

(***************************************************************************)
(* Program constants.                                                      *)
(***************************************************************************)
MAX_SIZE == 5 * 1024 * 1024      \* main.py:111
MAX_ATTEMPTS == 3                \* main.py:133 stop_after_attempt(3)
WAIT_SECONDS == 2                \* main.py:133 wait_fixed(2)
ROW_LIMIT == 20                  \* main.py:230 LIMIT 20

QUESTION_MARKER == <<"Q", "u", "e", "s", "t", "i", "o", "n", ":">>
ANSWER_MARKER == <<"A", "n", "s", "w", "e", "r", ":">>
DEFAULT_QUESTION ==
  <<"W", "h", "a", "t", " ", "i", "s", " ", "i", "n", " ", "t", "h", "e", " ",
    "i", "m", "a", "g", "e", "?">>
IMAGE_JPEG == <<"i", "m", "a", "g", "e", "/", "j", "p", "e", "g">>
IMAGE_PNG == <<"i", "m", "a", "g", "e", "/", "p", "n", "g">>

\* The characters str.strip() removes (those that occur in the model's texts).
Whitespace == {" ", "\n", "\t"}

(***************************************************************************)
(* String operations of Python, as the parser uses them.                   *)
(***************************************************************************)

\* s.startswith(p)
StartsWith(s, p) == Len(s) >= Len(p) /\ SubSeq(s, 1, Len(p)) = p

\* s.find(m) from position i on, 1-based; 0 when m does not occur.
RECURSIVE Find(_, _, _)
Find(s, m, i) ==
  IF i + Len(m) - 1 > Len(s) THEN 0
  ELSE IF SubSeq(s, i, i + Len(m) - 1) = m THEN i
  ELSE Find(s, m, i + 1)

\* m in s
Contains(s, m) == Find(s, m, 1) # 0

\* s.rfind(m) from position i down.
RECURSIVE FindLast(_, _, _)
FindLast(s, m, i) ==
  IF i < 1 THEN 0
  ELSE IF i + Len(m) - 1 <= Len(s) /\ SubSeq(s, i, i + Len(m) - 1) = m THEN i
  ELSE FindLast(s, m, i - 1)

\* s.rsplit(m, 1): the parts around the last m, where the code splits at the first.
SplitLast(s, m) ==
  LET i == FindLast(s, m, Len(s))
  IN  <<SubSeq(s, 1, i - 1), SubSeq(s, i + Len(m), Len(s))>>

\* s.split(m, 1) for an s that contains m: the parts around the first m.
SplitOnce(s, m) ==
  LET i == Find(s, m, 1)
  IN  <<SubSeq(s, 1, i - 1), SubSeq(s, i + Len(m), Len(s))>>

\* s.replace(m, ""): one pass from the left over non-overlapping occurrences.
RECURSIVE Remove(_, _)
Remove(s, m) ==
  IF Len(s) < Len(m) THEN s
  ELSE IF SubSeq(s, 1, Len(m)) = m THEN Remove(SubSeq(s, Len(m) + 1, Len(s)), m)
  ELSE <<Head(s)>> \o Remove(Tail(s), m)

RECURSIVE LStrip(_)
LStrip(s) ==
  IF s # <<>> /\ Head(s) \in Whitespace THEN LStrip(Tail(s)) ELSE s

RECURSIVE RStrip(_)
RStrip(s) ==
  IF s # <<>> /\ s[Len(s)] \in Whitespace THEN RStrip(SubSeq(s, 1, Len(s) - 1))
  ELSE s

\* s.strip()
Strip(s) == RStrip(LStrip(s))

\* main.py:191-203: the question and the answer taken from a reply text.
ParseResponse(api_content) ==
  IF Contains(api_content, QUESTION_MARKER) /\ Contains(api_content, ANSWER_MARKER)
  THEN LET parts == SplitOnce(api_content, ANSWER_MARKER)
       IN  [question |-> Strip(Remove(parts[1], QUESTION_MARKER)),
            answer |-> Strip(parts[2])]
  ELSE [question |-> DEFAULT_QUESTION, answer |-> Strip(api_content)]


(***************************************************************************)
(* base64.b64encode, main.py:118.  Only the first group of the encoding is *)
(* kept: a content is [head |-> its first (up to 3) bytes, len |-> its     *)
(* length in bytes].                                                       *)
(***************************************************************************)
B64_ALPHABET ==
  <<"A", "B", "C", "D", "E", "F", "G", "H", "I", "J", "K", "L", "M",
    "N", "O", "P", "Q", "R", "S", "T", "U", "V", "W", "X", "Y", "Z",
    "a", "b", "c", "d", "e", "f", "g", "h", "i", "j", "k", "l", "m",
    "n", "o", "p", "q", "r", "s", "t", "u", "v", "w", "x", "y", "z",
    "0", "1", "2", "3", "4", "5", "6", "7", "8", "9", "+", "/">>

B64Group(bytes) ==
  LET n == Len(bytes)
      b1 == bytes[1]
      b2 == IF n >= 2 THEN bytes[2] ELSE 0
      b3 == IF n >= 3 THEN bytes[3] ELSE 0
  IN  << B64_ALPHABET[(b1 \div 4) + 1],
         B64_ALPHABET[((b1 % 4) * 16 + (b2 \div 16)) + 1],
         IF n >= 2 THEN B64_ALPHABET[((b2 % 16) * 4 + (b3 \div 64)) + 1] ELSE "=",
         IF n >= 3 THEN B64_ALPHABET[(b3 % 64) + 1] ELSE "=" >>

\* The first four characters of b64_image (fewer for an empty content).
B64Head(content) ==
  IF content.head = <<>> THEN <<>> ELSE B64Group(content.head)

(***************************************************************************)
(* The inputs of the model.                                                *)
(***************************************************************************)
JPEG_HEAD == <<255, 216, 255>>      \* FF D8 FF, the JPEG signature
PNG_HEAD == <<137, 80, 78>>         \* 89 'P' 'N'

File(filename, content_type, head, len) ==
  [filename |-> filename, content_type |-> content_type,
   content |-> [head |-> head, len |-> len]]

\* A file a client can send without a problem of any kind.
GOOD_FILE == File(<<"a">>, IMAGE_JPEG, JPEG_HEAD, 3)

Files ==
  { File(<<>>, IMAGE_JPEG, JPEG_HEAD, 3),               \* no file name
    File(<<"a">>, <<>>, JPEG_HEAD, 3),                  \* no content type
    File(<<"a">>, IMAGE_PNG, PNG_HEAD, 3),
    File(<<"a">>, IMAGE_JPEG, <<>>, 0),                 \* empty content
    GOOD_FILE,
    File(<<"a">>, IMAGE_JPEG, PNG_HEAD, 3),             \* declared as JPEG only
    File(<<"a">>, IMAGE_JPEG, JPEG_HEAD, MAX_SIZE),
    File(<<"a">>, IMAGE_JPEG, JPEG_HEAD, MAX_SIZE + 1),
    File(<<"a">>, IMAGE_JPEG \o <<"2">>, JPEG_HEAD, 3) }

\* What one attempt of call_perplexity_api can end in: the reply (ok), a
\* transport error or the timeout of session.post, a non-success status.
Outcomes == {"ok", "ClientError", "TimeoutError", "HTTPError"}

\* The reply texts of the pipeline.
QA_TEXT == QUESTION_MARKER \o <<" ", "x", "\n">> \o ANSWER_MARKER \o <<" ", "y">>
Q_ONLY_TEXT == QUESTION_MARKER \o <<" ">> \o ANSWER_MARKER
ReplyTexts == { <<>>, <<" ">>, QA_TEXT, Q_ONLY_TEXT }

\* The JSON body of a successful reply: choices[0].message.content is a text
\* ("message"), is missing ("no_content"), or choices is empty ("no_choices").
Message(t) == [shape |-> "message", content |-> t]
BadDatas ==
  { [shape |-> "no_content", content |-> <<>>],
    [shape |-> "no_choices", content |-> <<>>] }
Datas == { Message(t) : t \in ReplyTexts } \cup BadDatas

\* The reply texts of SpecParse: every concatenation of up to n pieces.
Pieces ==
  { QUESTION_MARKER, ANSWER_MARKER, <<" ">>, <<"x">>,
    <<"Q", "u", "e", "s">>, <<"t", "i", "o", "n", ":">> }

RECURSIVE Texts(_)
Texts(n) ==
  IF n = 0 THEN { <<>> }
  ELSE LET shorter == Texts(n - 1)
       IN  shorter \cup { t \o p : t \in shorter, p \in Pieces }

(***************************************************************************)
(* State.                                                                  *)
(***************************************************************************)
VARIABLES
  req,        \* req[r]: the upload request handled in slot r (see IdleReq)
  store,      \* the rows of table answers, in insertion order
  nextId,     \* the next AUTOINCREMENT id
  clock,      \* CURRENT_TIMESTAMP, in seconds
  api_key,    \* whether PPLX_API_KEY is set
  answers,    \* the last response of GET /answers
  uploads,    \* uploads received so far
  starts      \* runs of init_database() so far

vars == <<req, store, nextId, clock, api_key, answers, uploads, starts>>

\* No reply received yet.
NoReply == [shape |-> "none", content |-> <<>>]

NoFile == File(<<>>, <<>>, <<>>, 0)

IdleReq ==
  [ pc |-> "idle",          \* idle, reading, calling, waiting, done
    file |-> NoFile,        \* the uploaded file
    attempts |-> 0,         \* attempts of call_perplexity_api started
    slept |-> 0,            \* seconds waited between attempts
    hist |-> <<>>,          \* how each finished attempt ended
    reply |-> NoReply,      \* the body of the successful reply
    api_content |-> <<>>,   \* the reply text that got past the empty check
    parsed |-> FALSE,       \* whether the parsing block ran
    question |-> <<>>,      \* the parsed pair; of a 200, the pair of the response
    answer |-> <<>>,
    rowid |-> 0,            \* the id of the row this request inserted
    status |-> 0,           \* the HTTP status of the response (0: none yet)
    detail |-> "" ]

\* The state after import: init_database() has run, no request yet.  Slots
\* is the set of requests that can be in flight together.
InitWith(Slots) ==
  /\ req = [r \in Slots |-> IdleReq]
  /\ store = <<>>
  /\ nextId = 1
  /\ clock = 0
  /\ api_key \in BOOLEAN
  /\ answers = [status |-> 0, body |-> <<>>]
  /\ uploads = 0
  /\ starts = 1

Init == InitWith({1})

(***************************************************************************)
(* POST /upload, main.py:95-219.                                           *)
(***************************************************************************)
\* The error is set but the handler does not return.
RespondAndGoOn(r, code, msg) ==
  [req[r] EXCEPT !.status = code, !.detail = msg]

\* main.py:115, 123: raise HTTPException(status_code, detail).
Respond(r, code, msg) ==
  [req[r] EXCEPT !.pc = "done", !.status = code, !.detail = msg]

\* main.py:105
TypeOk(content_type) == StartsWith(content_type, IMAGE_JPEG)

\* The size check left out.
TooLargeNever(content) == FALSE

\* main.py:111
TooLarge(content) == content.len > MAX_SIZE

\* main.py:101-109: up to the await of file.read().
Upload(r, f) ==
  /\ req[r].pc = "idle"
  /\ uploads' = uploads + 1
  /\ LET q == [req[r] EXCEPT !.file = f]
     IN  req' = [req EXCEPT ![r] =
           IF f.filename = <<>>
           THEN [q EXCEPT !.pc = "done", !.status = 400, !.detail = "No file uploaded."]
           ELSE IF ~TypeOk(f.content_type)
           THEN [q EXCEPT !.pc = "done", !.status = 400,
                          !.detail = "Only JPEG images are supported."]
           ELSE [q EXCEPT !.pc = "reading"]]
  /\ UNCHANGED <<store, nextId, clock, api_key, answers, starts>>

\* main.py:108-115: what the try block raises: the read's own error, or the
\* HTTPException(413) of the size check.  "" when it raises nothing.
ReadRaises(content, readOk) ==
  IF ~readOk THEN "OSError"
  ELSE IF TooLarge(content) THEN "HTTPException413"
  ELSE ""

\* The key taken as configured whatever the environment holds.
KeyMissingNever(key) == FALSE

\* main.py:120-121: `if not api_key`; key is whether PPLX_API_KEY is set.
KeyMissing(key) == ~key

\* main.py:109-131: file.read() returns or raises; `except Exception` catches
\* whatever the try block raised, the HTTPException(413) included.
ReadFile(r, readOk) ==
  /\ req[r].pc = "reading"
  /\ req' = [req EXCEPT ![r] =
       IF ReadRaises(req[r].file.content, readOk) = "OSError"
       THEN Respond(r, 500, "An error occurred while reading the file: OSError")
       ELSE IF ReadRaises(req[r].file.content, readOk) = "HTTPException413"
       THEN Respond(r, 500,
              "An error occurred while reading the file: 413: Image is too large (max 5MB).")
       ELSE IF KeyMissing(api_key)
       THEN Respond(r, 500, "API key is not configured on the server.")
       ELSE [req[r] EXCEPT !.pc = "calling", !.attempts = 1]]
  /\ UNCHANGED <<store, nextId, clock, api_key, answers, uploads, starts>>

\* main.py:162-175: what an attempt raises: session.post raises the transport
\* error or the timeout (some Exception), line 173 raises HTTPException(502).
AttemptRaises(outcome) ==
  CASE outcome = "ok" -> ""
    [] outcome = "HTTPError" -> "HTTPException"
    [] OTHER -> "Exception"

\* Retrying whatever the attempt returned.
NeedsRetryAlways(raised) == TRUE

\* tenacity's default retry condition: retry when the attempt raised.
NeedsRetry(raised) == raised # ""

\* Stopping one attempt late.
ShouldStopLate(attempt_number) == attempt_number >= MAX_ATTEMPTS + 1

\* main.py:133 stop_after_attempt(3)
ShouldStop(attempt_number) == attempt_number >= MAX_ATTEMPTS

\* main.py:179: data.get("choices", [{}])[0].get("message", {}).get("content")
\* raises IndexError on an empty choices list.
ContentRaises(data) == data.shape = "no_choices"

\* Only a missing content counts as empty, not the empty string.
IsContentNone(data) == data.shape = "no_content"

\* main.py:180: `not api_content`: None or the empty string.
IsEmptyContent(data) == data.shape = "no_content" \/ data.content = <<>>

\* Every row gets the same id.
NewRowSameId(question, answer) ==
  [id |-> 1, question |-> question, answer |-> answer, timestamp |-> clock]

\* main.py:207-213: the row INSERT adds.
NewRow(question, answer) ==
  [id |-> nextId, question |-> question, answer |-> answer, timestamp |-> clock]

\* The row is left in the table when the INSERT fails.
InsertNoRollback(table, row, dbOk) == Append(table, row)

\* main.py:207-213: the table after the INSERT.  When connect, execute or
\* commit raises sqlite3.Error, the `with` block rolls the transaction back.
Insert(table, row, dbOk) == IF dbOk THEN Append(table, row) ELSE table

\* main.py:133: what call_perplexity_api raises once the stop condition
\* holds.  The decorator is not given reraise=True, so tenacity wraps the
\* last attempt's exception into its own RetryError.
RetryRaises(raised) == "RetryError"

\* main.py:183-187: an HTTPException leaves the handler as it was raised,
\* with its status and detail; any other exception becomes the 500 of 187.
HandlerResponse(exc, code, msg) ==
  IF exc = "HTTPException"
  THEN [status |-> code, detail |-> msg]
  ELSE [status |-> 500, detail |-> "An error occurred while contacting the AI service."]

\* The two fields change places.
ResponseSwapped(question, answer) == [question |-> answer, answer |-> question]

\* main.py:219: the body of the 200 response.
Response(question, answer) == [question |-> question, answer |-> answer]

\* main.py:162-219: one attempt ends.  A failed attempt is retried after the
\* wait or, when it was the last one, call_perplexity_api raises.  A
\* successful attempt returns data; the rest of the handler runs without
\* suspension.
AttemptDone(r, outcome, data, dbOk) ==
  /\ req[r].pc = "calling"
  /\ LET raised == AttemptRaises(outcome)
         q == [req[r] EXCEPT !.hist = Append(@, IF raised = "" THEN "ok" ELSE raised),
                             !.reply = IF raised = "" THEN data ELSE @]
         p == ParseResponse(data.content)
         fail(out) == [q EXCEPT !.pc = "done", !.status = out.status, !.detail = out.detail]
     IN  IF NeedsRetry(raised)
         THEN /\ req' = [req EXCEPT ![r] =
                   IF ShouldStop(q.attempts)
                   THEN fail(HandlerResponse(RetryRaises(raised), 502,
                               "Failed to get a response from the AI service."))
                   ELSE [q EXCEPT !.pc = "waiting"]]
              /\ UNCHANGED <<store, nextId>>
         ELSE IF ContentRaises(data)
         THEN /\ req' = [req EXCEPT ![r] = fail(HandlerResponse("IndexError", 0, ""))]
              /\ UNCHANGED <<store, nextId>>
         ELSE IF IsEmptyContent(data)
         THEN /\ req' = [req EXCEPT ![r] =
                   fail(HandlerResponse("HTTPException", 500,
                          "AI service returned an empty response."))]
              /\ UNCHANGED <<store, nextId>>
         ELSE /\ req' = [req EXCEPT ![r] =
                   IF dbOk
                   THEN [q EXCEPT !.pc = "done", !.status = 200,
                           !.api_content = data.content, !.parsed = TRUE,
                           !.question = Response(p.question, p.answer).question,
                           !.answer = Response(p.question, p.answer).answer,
                           !.rowid = nextId]
                   ELSE [q EXCEPT !.pc = "done", !.status = 500,
                           !.api_content = data.content, !.parsed = TRUE,
                           !.question = p.question, !.answer = p.answer,
                           !.detail = "Failed to store the result due to a database error."]]
              /\ store' = Insert(store, NewRow(p.question, p.answer), dbOk)
              /\ nextId' = IF dbOk THEN nextId + 1 ELSE nextId
  /\ UNCHANGED <<clock, api_key, answers, uploads, starts>>

\* main.py:133 wait_fixed(2): the sleep between two attempts ends.
WaitDone(r) ==
  /\ req[r].pc = "waiting"
  /\ req' = [req EXCEPT ![r] =
       [@ EXCEPT !.pc = "calling", !.attempts = @ + 1, !.slept = @ + WAIT_SECONDS]]
  /\ UNCHANGED <<store, nextId, clock, api_key, answers, uploads, starts>>

\* The response is sent and the handler's frame is gone: the slot is free.
Finish(r) ==
  /\ req[r].pc = "done"
  /\ req' = [req EXCEPT ![r] = IdleReq]
  /\ UNCHANGED <<store, nextId, clock, api_key, answers, uploads, starts>>

(***************************************************************************)
(* GET /answers, main.py:221-237.                                          *)
(***************************************************************************)
Max(S) == CHOOSE x \in S : \A y \in S : y <= x

\* Every order of the rows S that ORDER BY timestamp DESC allows: the query
\* names no second sort key, so rows of equal timestamp come in any order.
RECURSIVE OrderByTimestampDesc(_)
OrderByTimestampDesc(S) ==
  IF S = {} THEN { <<>> }
  ELSE LET m == Max({x.timestamp : x \in S})
       IN  UNION { { <<x>> \o rest : rest \in OrderByTimestampDesc(S \ {x}) } :
                   x \in {y \in S : y.timestamp = m} }

\* LIMIT n
Limit(rows, n) == SubSeq(rows, 1, IF Len(rows) < n THEN Len(rows) ELSE n)

Rows(table) == { table[i] : i \in 1..Len(table) }

\* What the SELECT of main.py:229-232 can fetch.  The rows keep their id here,
\* which the SELECT does not fetch, so that a fetched row can be told apart.
QueryResults(table) ==
  { Limit(rows, ROW_LIMIT) : rows \in OrderByTimestampDesc(Rows(table)) }

GetAnswers(dbOk) ==
  /\ \/ /\ dbOk
        /\ \E rows \in QueryResults(store) :
             answers' = [status |-> 200, body |-> rows]
     \/ /\ ~dbOk
        /\ answers' = [status |-> 500, body |-> <<>>]
  /\ UNCHANGED <<req, store, nextId, clock, api_key, uploads, starts>>

(***************************************************************************)
(* GET /health, main.py:239-242, and init_database(), main.py:52-74.       *)
(***************************************************************************)
\* The handler returns {"status": "ok"} and touches nothing.
Health == UNCHANGED vars

\* The table is created anew on every run.
CreateTableAnew(exists, table, seq) == [rows |-> <<>>, seq |-> 1]

\* main.py:59-66: CREATE TABLE IF NOT EXISTS: a table that exists is left
\* as it is, rows and AUTOINCREMENT sequence; a missing one is created empty.
CreateTableIfNotExists(exists, table, seq) ==
  IF exists THEN [rows |-> table, seq |-> seq] ELSE [rows |-> <<>>, seq |-> 1]

\* main.py:52-74: init_database() runs again (the process is started again,
\* or another worker is started, on the same database file).  The table
\* exists since the first run.
InitDatabase ==
  /\ LET db == CreateTableIfNotExists(starts > 0, store, nextId)
     IN  store' = db.rows /\ nextId' = db.seq
  /\ starts' = starts + 1
  /\ UNCHANGED <<req, clock, api_key, answers, uploads>>

\* The wall clock advances by a second.
Tick ==
  /\ clock' = clock + 1
  /\ UNCHANGED <<req, store, nextId, api_key, answers, uploads, starts>>

(***************************************************************************)
(* Specifications.                                                         *)
(***************************************************************************)

\* The service handling uploads one at a time, and reads of the answers.
Next ==
  \/ \E r \in DOMAIN req, f \in Files : uploads < MaxUploads /\ Upload(r, f)
  \/ \E r \in DOMAIN req, readOk \in BOOLEAN : ReadFile(r, readOk)
  \/ \E r \in DOMAIN req, o \in Outcomes, d \in Datas, dbOk \in BOOLEAN :
       AttemptDone(r, o, d, dbOk)
  \/ \E r \in DOMAIN req : WaitDone(r)
  \/ \E r \in DOMAIN req : Finish(r)
  \/ \E dbOk \in BOOLEAN : GetAnswers(dbOk)
  \/ clock < MaxClock /\ Tick

Spec == Init /\ [][Next]_vars

\* One upload of a good file, answered at once with any text of ParseTexts.
ParseTexts == Texts(MaxPieces)
ParseDatas == { Message(t) : t \in ParseTexts }

NextParse ==
  \/ \E r \in DOMAIN req : uploads < MaxUploads /\ Upload(r, GOOD_FILE)
  \/ \E r \in DOMAIN req : ReadFile(r, TRUE)
  \/ \E r \in DOMAIN req, d \in ParseDatas : AttemptDone(r, "ok", d, TRUE)

SpecParse == Init /\ [][NextParse]_vars

\* The rows stored in the current second.
RowsNow == Cardinality({ i \in 1..Len(store) : store[i].timestamp = clock })

\* Uploads of a good file, one after the other, each answered at once and
\* stored, until the table holds one row more than a read returns: up to
\* MaxBurst of them in the first second, then one a second.  The answers are
\* read at any time.
NextFill ==
  \/ \E r \in DOMAIN req :
       /\ uploads < ROW_LIMIT + 1
       /\ RowsNow < (IF clock = 0 THEN MaxBurst ELSE 1)
       /\ Upload(r, GOOD_FILE)
  \/ \E r \in DOMAIN req : ReadFile(r, TRUE)
  \/ \E r \in DOMAIN req : AttemptDone(r, "ok", Message(QA_TEXT), TRUE)
  \/ \E r \in DOMAIN req : Finish(r)
  \/ RowsNow >= 1 /\ Tick
  \/ GetAnswers(TRUE)

SpecFill == Init /\ [][NextFill]_vars

\* The inputs of SpecStore.
StoreOutcomes == {"ok", "HTTPError"}
StoreDatas == { Message(QA_TEXT), Message(Q_ONLY_TEXT) }

\* Every operation on the table: uploads of a good file one at a time, reads
\* of the answers, the health check and further runs of init_database().
NextStore ==
  \/ \E r \in DOMAIN req : uploads < MaxUploads /\ Upload(r, GOOD_FILE)
  \/ \E r \in DOMAIN req : ReadFile(r, TRUE)
  \/ \E r \in DOMAIN req, o \in StoreOutcomes, d \in StoreDatas, dbOk \in BOOLEAN :
       AttemptDone(r, o, d, dbOk)
  \/ \E r \in DOMAIN req : WaitDone(r)
  \/ \E r \in DOMAIN req : Finish(r)
  \/ \E dbOk \in BOOLEAN : GetAnswers(dbOk)
  \/ clock < MaxClock /\ Tick
  \/ Health
  \/ starts < MaxStarts /\ InitDatabase

SpecStore == Init /\ [][NextStore]_vars

\* The inputs of SpecConc: a file that passes validation and one that does
\* not, a reply and a timeout, two replies of different question and answer
\* and an empty one.
ConcFiles == { GOOD_FILE, File(<<"a">>, IMAGE_PNG, PNG_HEAD, 3) }
ConcOutcomes == {"ok", "TimeoutError"}
ZW_TEXT == QUESTION_MARKER \o <<" ", "z", "\n">> \o ANSWER_MARKER \o <<" ", "w">>
ConcDatas == { Message(QA_TEXT), Message(ZW_TEXT), Message(<<>>) }

\* MaxSlots uploads in flight together: the event loop runs one handler up to
\* its next await (file.read(), session.post, the sleep between attempts),
\* then any handler that can go on.
InitConc == InitWith(1..MaxSlots)

NextConc ==
  \/ \E r \in DOMAIN req, f \in ConcFiles : Upload(r, f)
  \/ \E r \in DOMAIN req, readOk \in BOOLEAN : ReadFile(r, readOk)
  \/ \E r \in DOMAIN req, o \in ConcOutcomes, d \in ConcDatas, dbOk \in BOOLEAN :
       AttemptDone(r, o, d, dbOk)
  \/ \E r \in DOMAIN req : WaitDone(r)

SpecConc == InitConc /\ [][NextConc]_vars

\* The steps that request r takes by itself once it is received.
Progress(r) ==
  \/ \E readOk \in BOOLEAN : ReadFile(r, readOk)
  \/ \E o \in ConcOutcomes, d \in ConcDatas, dbOk \in BOOLEAN : AttemptDone(r, o, d, dbOk)
  \/ WaitDone(r)

\* SpecConc with the scheduling of the event loop: file.read() returns or
\* raises, every attempt ends (session.post has timeout=30), the sleep of two
\* seconds ends and sqlite3 returns, so a handler that can go on does go on.
SpecLive ==
  /\ InitConc
  /\ [][NextConc]_vars
  /\ \A r \in 1..MaxSlots : WF_vars(Progress(r))




(***************************************************************************)
(* Properties.  What a reply text, a file or a row is said to be is        *)
(* written here position by position, apart from the operators the         *)
(* handler is modelled with.                                               *)
(***************************************************************************)
ReqIds == DOMAIN req

OccursAt(s, m, i) ==
  /\ i >= 1
  /\ i + Len(m) - 1 <= Len(s)
  /\ \A k \in 1..Len(m) : s[i + k - 1] = m[k]

Occurs(s, m) == \E i \in 1..Len(s) : OccursAt(s, m, i)

FirstAt(s, m) ==
  CHOOSE i \in 1..Len(s) : OccursAt(s, m, i) /\ \A j \in 1..(i - 1) : ~OccursAt(s, m, j)

\* The text before, and the text after, the first occurrence of m in s.
Before(s, m) == [k \in 1..(FirstAt(s, m) - 1) |-> s[k]]
After(s, m) ==
  LET from == FirstAt(s, m) + Len(m)
  IN  [k \in 1..(Len(s) - from + 1) |-> s[from + k - 1]]

\* s without the positions that an occurrence of m covers.
Without(s, m) ==
  LET covered == { p \in 1..Len(s) : \E i \in 1..p : OccursAt(s, m, i) /\ p < i + Len(m) }
      kept == (1..Len(s)) \ covered
  IN  [j \in 1..Cardinality(kept) |->
         s[CHOOSE p \in kept : Cardinality({q \in kept : q < p}) = j - 1]]

\* t is s with the whitespace at both ends taken off.
IsTrimOf(t, s) ==
  \E a \in 1..(Len(s) + 1) : \E b \in (a - 1)..Len(s) :
    /\ t = [k \in 1..(b - a + 1) |-> s[a + k - 1]]
    /\ \A k \in 1..(a - 1) : s[k] \in Whitespace
    /\ \A k \in (b + 1)..Len(s) : s[k] \in Whitespace
    /\ a <= b => s[a] \notin Whitespace /\ s[b] \notin Whitespace

JPEG_B64_PREFIX == <<"/", "9", "j", "/">>

Named(f) == f.filename # <<>>
DeclaredJpeg(f) == Len(f.content_type) >= 10 /\ \A k \in 1..10 : f.content_type[k] = IMAGE_JPEG[k]
OverLimit(f) == f.content.len > 5 * 1024 * 1024

\* What validation is said to reject in C1.
Invalid(f) == ~Named(f) \/ ~DeclaredJpeg(f) \/ OverLimit(f)

AllFailed(h) == h # <<>> /\ \A k \in 1..Len(h) : h[k] # "ok"

RowOf(r) == { store[i] : i \in { j \in 1..Len(store) : store[j].id = req[r].rowid } }

\* C1: a step of a request whose file validation rejects (no file name, a
\* declared type not starting with image/jpeg, a size above the limit) leaves
\* the store as it was, and the request has attempted no external call,
\* inserted no row and does not succeed.
C1_RejectedNoEffect ==
  [][\A r \in ReqIds :
       (req'[r] # req[r] /\ req'[r].pc # "idle" /\ Invalid(req'[r].file)) =>
         /\ store' = store
         /\ nextId' = nextId
         /\ req'[r].attempts = 0
         /\ req'[r].hist = <<>>
         /\ req'[r].rowid = 0
         /\ req'[r].pc \in {"reading", "done"}
         /\ req'[r].pc = "done" => req'[r].status >= 400]_vars

\* C1 witness: an oversized upload was rejected while the store held a row.
C1_Witness ==
  \E r \in ReqIds :
    /\ req[r].pc = "done" /\ OverLimit(req[r].file) /\ Named(req[r].file)
    /\ DeclaredJpeg(req[r].file) /\ req[r].status >= 400 /\ Len(store) = 1

\* C2: a request never makes more than 3 attempts; a wait of the fixed delay
\* lies between consecutive attempts; a request all of whose attempts failed
\* has made exactly 3, ends with one 500/502 failure, was not parsed and
\* inserted no row.
C2_BoundedRetry ==
  \A r \in ReqIds :
    /\ req[r].attempts <= 3
    /\ Len(req[r].hist) <= 3
    /\ req[r].attempts >= 1 => req[r].slept = 2 * (req[r].attempts - 1)
    /\ req[r].pc = "waiting" => Len(req[r].hist) = req[r].attempts
    /\ req[r].pc = "calling" => Len(req[r].hist) = req[r].attempts - 1
    /\ (req[r].pc = "done" /\ AllFailed(req[r].hist)) =>
         /\ req[r].attempts = 3
         /\ Len(req[r].hist) = 3
         /\ req[r].status \in {500, 502}
         /\ ~req[r].parsed
         /\ req[r].rowid = 0

\* C2 witness: three attempts failed, two waits between them, a 500.
C2_Witness ==
  \E r \in ReqIds :
    /\ req[r].pc = "done" /\ Len(req[r].hist) = 3 /\ AllFailed(req[r].hist)
    /\ req[r].slept = 4 /\ req[r].status = 500 /\ store = <<>>

\* C3: the first successful attempt is the last one: when attempt k is the
\* first to succeed, the request has made exactly k attempts and is done, and
\* what it returns and what it stored is what the parser makes of that reply.
C3_StopAtFirstSuccess ==
  \A r \in ReqIds :
    /\ \A k \in 1..Len(req[r].hist) :
         req[r].hist[k] = "ok" =>
           /\ k = Len(req[r].hist)
           /\ req[r].attempts = k
           /\ req[r].pc = "done"
    /\ (req[r].pc = "done" /\ req[r].status = 200) =>
         /\ req[r].hist # <<>> /\ req[r].hist[Len(req[r].hist)] = "ok"
         /\ req[r].parsed
         /\ req[r].question = ParseResponse(req[r].api_content).question
         /\ req[r].answer = ParseResponse(req[r].api_content).answer
         /\ \E row \in RowOf(r) :
              row.question = req[r].question /\ row.answer = req[r].answer

\* C3 witness: a failure, then a success: two attempts, the reply stored.
C3_Witness ==
  \E r \in ReqIds :
    /\ req[r].pc = "done" /\ req[r].status = 200 /\ req[r].attempts = 2
    /\ req[r].hist = <<"Exception", "ok">> /\ req[r].api_content = QA_TEXT
    /\ Len(store) = 1 /\ store[1].answer = <<"y">>

READ_FAILED == "An error occurred while reading the file: OSError"
NO_API_KEY == "API key is not configured on the server."

\* C4: an upload with a file name and declared type image/jpeg whose read
\* succeeds is answered with 413 when its content is longer than 5 * 1024 *
\* 1024 bytes, with no external call and no row; a content of exactly that
\* length is not answered with 413.
C4_TooLargeIs413 ==
  \A r \in ReqIds :
    (req[r].pc = "done" /\ Named(req[r].file) /\ DeclaredJpeg(req[r].file)
       /\ req[r].detail # READ_FAILED) =>
      /\ OverLimit(req[r].file) =>
           req[r].status = 413 /\ req[r].attempts = 0 /\ req[r].rowid = 0
      /\ req[r].file.content.len = 5 * 1024 * 1024 => req[r].status # 413

\* C5: an upload declared image/jpeg, within the size limit, whose base64
\* encoding does not begin with /9j/ makes no external call, inserts no row
\* and, unless reading the file failed or the API key is missing, ends with
\* a 400.
C5_SignatureChecked ==
  \A r \in ReqIds :
    (req[r].pc # "idle" /\ Named(req[r].file) /\ DeclaredJpeg(req[r].file)
       /\ ~OverLimit(req[r].file) /\ req[r].file.content.len > 0
       /\ ~StartsWith(B64Head(req[r].file.content), JPEG_B64_PREFIX)) =>
      /\ req[r].attempts = 0
      /\ req[r].rowid = 0
      /\ (req[r].pc = "done" /\ req[r].detail \notin {READ_FAILED, NO_API_KEY}) =>
           req[r].status = 400

\* C6: an upload whose file is present but has zero bytes makes no external
\* call, inserts no row and, unless reading the file failed or the API key is
\* missing, ends with a 400.
C6_EmptyRejected ==
  \A r \in ReqIds :
    (req[r].pc # "idle" /\ Named(req[r].file) /\ req[r].file.content.len = 0) =>
      /\ req[r].attempts = 0
      /\ req[r].rowid = 0
      /\ (req[r].pc = "done" /\ req[r].detail \notin {READ_FAILED, NO_API_KEY}) =>
           req[r].status = 400

\* C7: every row of the store has a non-empty question and a non-empty answer.
C7_RowsNonEmpty ==
  \A i \in 1..Len(store) : store[i].question # <<>> /\ store[i].answer # <<>>

\* C8: for a parsed reply text with both markers, the question is the text
\* before the first Answer: with the occurrences of Question: taken out and
\* then trimmed, and the answer is all the text after that first Answer:,
\* trimmed.
C8_MarkedReply ==
  \A r \in ReqIds :
    (req[r].parsed /\ Occurs(req[r].api_content, QUESTION_MARKER)
       /\ Occurs(req[r].api_content, ANSWER_MARKER)) =>
      /\ IsTrimOf(req[r].question,
                  Without(Before(req[r].api_content, ANSWER_MARKER), QUESTION_MARKER))
      /\ IsTrimOf(req[r].answer, After(req[r].api_content, ANSWER_MARKER))
      /\ \A row \in RowOf(r) :
           row.question = req[r].question /\ row.answer = req[r].answer

\* C8 witness: a reply with Question: and two Answer: markers was parsed; the
\* second Answer: stays inside the answer.
C8_Witness ==
  \E r \in ReqIds :
    /\ req[r].parsed /\ req[r].status = 200
    /\ req[r].api_content =
         QUESTION_MARKER \o <<"x">> \o ANSWER_MARKER \o ANSWER_MARKER
    /\ req[r].question = <<"x">>
    /\ req[r].answer = ANSWER_MARKER

\* C9: for a parsed reply text that lacks one of the markers, the question is
\* "What is in the image?", the answer is the whole text trimmed, and the
\* answer is not empty (the text is not: it got past the empty check).
C9_UnmarkedReply ==
  \A r \in ReqIds :
    (req[r].parsed /\ ~(Occurs(req[r].api_content, QUESTION_MARKER)
                          /\ Occurs(req[r].api_content, ANSWER_MARKER))) =>
      /\ req[r].question = DEFAULT_QUESTION
      /\ IsTrimOf(req[r].answer, req[r].api_content)
      /\ req[r].api_content # <<>> => req[r].answer # <<>>

\* C10: GET /answers returns the rows newest first: by timestamp descending,
\* rows of equal timestamp by id descending.
C10_NewestFirst ==
  answers.status = 200 =>
    \A i \in 1..Len(answers.body) : \A j \in (i + 1)..Len(answers.body) :
      \/ answers.body[i].timestamp > answers.body[j].timestamp
      \/ /\ answers.body[i].timestamp = answers.body[j].timestamp
         /\ answers.body[i].id > answers.body[j].id

(***************************************************************************)
(* GET /answers on a table of more than ROW_LIMIT rows (SpecFill).         *)
(***************************************************************************)
\* Row x was stored after row y: the later second or, within one second,
\* the later insertion.
Newer(x, y) ==
  \/ x.timestamp > y.timestamp
  \/ x.timestamp = y.timestamp /\ x.id > y.id

Min(a, b) == IF a < b THEN a ELSE b

\* C11: a read of the recent answers returns min(20, rows stored) rows, never
\* more than 20, and they are the newest ones: no stored row that the read
\* leaves out is newer than a row it returns.
C11_RecentAreNewest ==
  [][ (answers' # answers /\ answers'.status = 200) =>
        LET returned == Rows(answers'.body)
        IN  /\ Len(answers'.body) = Min(20, Len(store))
            /\ Len(answers'.body) <= 20
            /\ returned \subseteq Rows(store)
            /\ \A x \in Rows(store) \ returned : \A y \in returned : ~Newer(x, y) ]_vars

(***************************************************************************)
(* The table under every operation (SpecStore).                            *)
(***************************************************************************)
\* C12: the table is append-only: no step of an upload, a read, the health
\* check or init_database() changes or removes a row that exists, a
\* successful upload adds exactly one row, and the ids are unique and
\* strictly increasing in insertion order.
C12_AppendOnly ==
  [][ /\ Len(store') >= Len(store)
      /\ \A i \in 1..Len(store) : store'[i] = store[i]
      /\ Len(store') <= Len(store) + 1
      /\ \A r \in ReqIds :
           (req'[r].status = 200 /\ req[r].status # 200) => Len(store') = Len(store) + 1
      /\ \A i \in 1..Len(store') : \A j \in 1..Len(store') :
           i < j => store'[i].id < store'[j].id ]_vars

\* Two rows are stored, the answers were read and init_database() ran again.
C12_Witness == Len(store) = 2 /\ answers.status = 200 /\ starts >= 2

\* C17: init_database() is idempotent: a run on an initialised table leaves
\* every row and the next id as they are, and a second run gives what the
\* first gave.
C17_InitIdempotent ==
  [][ starts' # starts =>
        /\ store' = store
        /\ nextId' = nextId
        /\ \A exists \in BOOLEAN :
             LET once == CreateTableIfNotExists(exists, store, nextId)
                 twice == CreateTableIfNotExists(TRUE, once.rows, once.seq)
             IN  twice = once ]_vars

\* init_database() ran twice more on a table that holds rows.
C17_Witness == starts = 3 /\ store # <<>> /\ nextId = Len(store) + 1

(***************************************************************************)
(* The failures of an upload after validation (Spec).                      *)
(***************************************************************************)
DB_FAILED == "Failed to store the result due to a database error."

\* C13: when the INSERT fails after a successful analysis the upload ends with
\* a 500, the table holds no row, whole or partial, of that request, the
\* INSERT is not tried again and no further attempt is made: the step that
\* ends a parsed upload either stores its one row and answers 200, or answers
\* the 500 of the database error and leaves table and next id as they were;
\* after it the request only sends its response.
C13_InsertFailure ==
  [][ \A r \in ReqIds :
        /\ (req'[r].parsed /\ ~req[r].parsed) =>
             /\ req'[r].pc = "done"
             /\ req'[r].attempts = req[r].attempts
             /\ \/ /\ req'[r].status = 200
                   /\ store' = Append(store, [id |-> req'[r].rowid,
                                               question |-> req'[r].question,
                                               answer |-> req'[r].answer,
                                               timestamp |-> clock])
                \/ /\ req'[r].status = 500
                   /\ req'[r].detail = DB_FAILED
                   /\ req'[r].rowid = 0
                   /\ store' = store
                   /\ nextId' = nextId
        /\ req[r].detail = DB_FAILED =>
             req'[r] \in {req[r], IdleReq} ]_vars

\* An analysed upload whose INSERT failed.
C13_Witness ==
  \E r \in ReqIds :
    /\ req[r].pc = "done" /\ req[r].detail = DB_FAILED /\ req[r].status = 500
    /\ req[r].parsed /\ req[r].hist[Len(req[r].hist)] = "ok"
    /\ store = <<>>

\* C14: while PPLX_API_KEY is not set, no request attempts an external call
\* or stores a row, and an upload that is valid otherwise, and whose file was
\* read, ends with the 500 of the configuration error.
C14_NoApiKey ==
  ~api_key =>
    /\ store = <<>>
    /\ \A r \in ReqIds :
         /\ req[r].pc \notin {"calling", "waiting"}
         /\ req[r].attempts = 0 /\ req[r].hist = <<>> /\ req[r].slept = 0
         /\ req[r].rowid = 0
         /\ (req[r].pc = "done" /\ ~Invalid(req[r].file) /\ req[r].detail # READ_FAILED) =>
              req[r].status = 500 /\ req[r].detail = NO_API_KEY

\* A good file uploaded while the key is not set.
C14_Witness ==
  \E r \in ReqIds :
    /\ ~api_key /\ req[r].pc = "done" /\ req[r].file = GOOD_FILE
    /\ req[r].status = 500 /\ req[r].detail = NO_API_KEY

\* The body of a reply holds no content field, or an empty one.
NoContent(d) == d.shape \in {"no_content", "no_choices"} \/ d.content = <<>>

\* C15: a successful reply without content, or with an empty one, ends the
\* request with an error: the reply was the last attempt, the parsing block
\* did not run and no row was inserted.
C15_EmptyReply ==
  \A r \in ReqIds :
    (req[r].reply # NoReply /\ NoContent(req[r].reply)) =>
      /\ req[r].pc = "done"
      /\ req[r].status >= 400
      /\ req[r].attempts = Len(req[r].hist)
      /\ req[r].hist[Len(req[r].hist)] = "ok"
      /\ ~req[r].parsed
      /\ req[r].question = <<>> /\ req[r].answer = <<>>
      /\ req[r].rowid = 0

\* The second attempt was answered with an empty content.
C15_Witness ==
  \E r \in ReqIds :
    /\ req[r].reply = Message(<<>>) /\ req[r].pc = "done"
    /\ req[r].hist = <<"Exception", "ok">>
    /\ req[r].detail = "AI service returned an empty response."

(***************************************************************************)
(* Uploads in flight together (SpecConc).                                  *)
(***************************************************************************)
Succeeded == { r \in ReqIds : req[r].pc = "done" /\ req[r].status = 200 }

RowsOf(r) == { i \in 1..Len(store) : store[i].id = req[r].rowid }

\* C16: in every interleaving of concurrent uploads, each upload that
\* succeeded has added exactly one row, whose question and answer are the
\* pair returned to its own caller (the one parsed from its own reply), every
\* other upload has added none, every row is the row of one successful
\* upload, and the table holds as many rows as uploads succeeded.
C16_OneRowPerSuccess ==
  /\ Len(store) = Cardinality(Succeeded)
  /\ \A r \in Succeeded :
       /\ Cardinality(RowsOf(r)) = 1
       /\ \A i \in RowsOf(r) :
            /\ store[i].question = req[r].question
            /\ store[i].answer = req[r].answer
            /\ store[i].question = ParseResponse(req[r].reply.content).question
            /\ store[i].answer = ParseResponse(req[r].reply.content).answer
  /\ \A r \in ReqIds \ Succeeded : req[r].rowid = 0 /\ RowsOf(r) = {}
  /\ \A i \in 1..Len(store) : \E r \in Succeeded : i \in RowsOf(r)
  /\ \A r1 \in Succeeded : \A r2 \in Succeeded : r1 # r2 => req[r1].rowid # req[r2].rowid

\* Two uploads got different replies and both succeeded; the one that was
\* retried once was stored last.
C16_Witness ==
  /\ Len(store) = 2
  /\ req[1].pc = "done" /\ req[2].pc = "done"
  /\ req[1].rowid = 2 /\ req[2].rowid = 1
  /\ req[1].question # req[2].question
  /\ req[1].hist = <<"Exception", "ok">>

(***************************************************************************)
(* Termination (SpecLive).                                                 *)
(***************************************************************************)
InFlight(r) == req[r].pc \in {"reading", "calling", "waiting"}

\* C18: every upload received ends, with one outcome that no later step
\* changes; an upload whose attempts all failed ends with a failure when the
\* third attempt has failed; and a request in flight can always take its next
\* step, whatever the other requests do.
C18_Terminates ==
  /\ \A r \in 1..MaxSlots : InFlight(r) ~> (req[r].pc = "done")
  /\ [](\A r \in 1..MaxSlots :
          req[r].pc = "done" => req[r].status \in {200, 400, 500})
  /\ [][\A r \in 1..MaxSlots : req[r].pc = "done" => req'[r] = req[r]]_vars
  /\ [](\A r \in 1..MaxSlots :
          AllFailed(req[r].hist) =>
            /\ Len(req[r].hist) <= MAX_ATTEMPTS
            /\ Len(req[r].hist) = MAX_ATTEMPTS <=> req[r].pc = "done"
            /\ req[r].pc = "done" => req[r].status = 500)
  /\ [](\A r \in 1..MaxSlots : InFlight(r) => ENABLED Progress(r))

\* An upload ended in a failure after three timeouts while another one was
\* still waiting for its file.
C18_Witness ==
  /\ req[1].pc = "done" /\ req[1].hist = <<"Exception", "Exception", "Exception">>
  /\ req[1].slept = 4 /\ req[1].status = 500
  /\ req[2].pc = "reading"

(***************************************************************************)
(* What the caller gets when the service keeps refusing (Spec).            *)
(***************************************************************************)
\* C19: when every attempt was answered with a non-success status, the
\* caller gets the error the attempt raised, status 502 and detail "Failed to
\* get a response from the AI service.", once the attempts are used up.
C19_ServiceErrorIs502 ==
  \A r \in ReqIds :
    ( /\ req[r].pc = "done"
      /\ req[r].file = GOOD_FILE
      /\ Len(req[r].hist) = MAX_ATTEMPTS
      /\ \A k \in 1..Len(req[r].hist) : req[r].hist[k] = "HTTPException" ) =>
      /\ req[r].status = 502
      /\ req[r].detail = "Failed to get a response from the AI service."

=============================================================================
